---- MODULE Spec2Model ----
(***************************************************************************)
(* State-machine model of custom_components/smart_thermostat/controllers.py *)
(*                                                                         *)
(* One controller instance (AbstractController with its two variants,      *)
(* SwitchController and a concrete AbstractPidController) together with    *)
(* the part of the host it talks to: the thermostat's temperatures and     *)
(* hvac mode, the target entity's state in the state machine, the service  *)
(* calls in flight to the target entity and the tasks the event loop holds.*)
(*                                                                         *)
(* A coroutine runs atomically up to an `await` of a host call             *)
(* (services.async_call); there it may be suspended, and it resumes in a   *)
(* later step.  Everything else in the file is synchronous.                *)
(***************************************************************************)
EXTENDS Integers, Sequences, FiniteSets, TLC

(* ------------------------------ bounds --------------------------------- *)
\* the clock that measures how long the target entity held its state saturates here
MaxElapsed == 2
\* the min_cycle_duration of a controller configured with one
MinCycle == 1
\* service calls accepted by the host and not yet applied by the target entity
MaxQueue == 1
\* control tasks created with hass.create_task and not yet started
MaxTasks == 1
\* async_control coroutines, and async_stop coroutines, suspended at an await at
\* the same time
MaxInFlight == 1
\* PID outputs are 0..MaxOutput
MaxOutput == 1

(* --------------------------- value domains ----------------------------- *)
HVAC_MODE_OFF == "off"
HVAC_MODE_HEAT == "heat"
HVAC_MODE_COOL == "cool"
HVAC_MODE_HEAT_COOL == "heat_cool"
STATE_ON == "on"
SERVICE_TURN_ON == "turn_on"
SERVICE_TURN_OFF == "turn_off"

HvacModes == {HVAC_MODE_OFF, HVAC_MODE_HEAT, HVAC_MODE_COOL, HVAC_MODE_HEAT_COOL}
\* temperatures the sensor reports and target temperatures the user sets
Temps == {1, 3}
TargetTemps == {2, 3}
\* the (cold_tolerance, hot_tolerance) pairs a controller is configured with
TolerancePairs == {<<1, 1>>, <<0, 1>>}
Outputs == 0..MaxOutput
\* the target entity's state string; "none" is an entity unknown to the state machine
EntityStates == {STATE_ON, "off", "none"}

VARIABLES
    variant,              \* "switch" (SwitchController) or "pid" (AbstractPidController)
    mode,                 \* self._mode
    inverted,             \* self._inverted
    cold_tolerance,       \* self._cold_tolerance
    hot_tolerance,        \* self._hot_tolerance
    min_cycle_duration,   \* self._min_cycle_duration, 0 when None
    initial_pid_params,   \* self._initial_pid_params
    running,              \* self.__running
    added,                \* async_added_to_hass has run: self._hass is the HomeAssistant
    current_pid_params,   \* self._current_pid_params
    pid,                  \* self._pid
    cur_temp,             \* thermostat.get_current_temperature()
    target_temp,          \* thermostat.get_target_temperature()
    hvac_mode,            \* thermostat.get_hvac_mode()
    entity,               \* hass.states: the target entity's state (switch)
    elapsed,              \* now - last_changed of the target entity (saturating)
    svcQueue,             \* services called on the target entity, not yet applied
    applied,              \* last value given to _apply_output, -1 when none (pid)
    pendingTasks,         \* control tasks created by create_task, not yet started
    ctlAwait,             \* async_control coroutines suspended in async_call
    stopAwait,            \* async_stop coroutines suspended in async_call
    last,                 \* history: the last operation, its arguments and what it did
    lastLogical,          \* history: the controller's latest logical command
    restart               \* history: "stopped" after a stop, "restarted" after the start that follows

vars == <<variant, mode, inverted, cold_tolerance, hot_tolerance, min_cycle_duration,
          initial_pid_params, running, added, current_pid_params, pid, cur_temp,
          target_temp, hvac_mode, entity, elapsed, svcQueue, applied, pendingTasks,
          ctlAwait, stopAwait, last, lastLogical, restart>>

config == <<variant, mode, inverted, cold_tolerance, hot_tolerance, min_cycle_duration,
            initial_pid_params>>
host == <<cur_temp, target_temp, hvac_mode>>
switchHost == <<entity, elapsed, svcQueue>>
pidState == <<current_pid_params, pid>>
tasks == <<pendingTasks, ctlAwait, stopAwait>>

(* ------------------------- values of the PID part ---------------------- *)
\* A value of self._current_pid_params / self._initial_pid_params: None, the
\* placeholder typing.Optional[PidParams] that __init__ stores, or a PidParams
\* object.  isStr: the three fields hold the strings cut out of the persisted
\* attribute, not numbers.
NoneParams == [tag |-> "None", kp |-> 0, ki |-> 0, kd |-> 0, isStr |-> FALSE]
OptionalPidParams == [tag |-> "Optional", kp |-> 0, ki |-> 0, kd |-> 0, isStr |-> FALSE]
PidParams(kp, ki, kd) == [tag |-> "PidParams", kp |-> kp, ki |-> ki, kd |-> kd, isStr |-> FALSE]

\* A value of self._pid: None, the placeholder typing.Optional[PID], or a PID object.
NonePid == [tag |-> "None", Kp |-> 0, Ki |-> 0, Kd |-> 0, isStr |-> FALSE, setpoint |-> 0]
OptionalPid == [tag |-> "Optional", Kp |-> 0, Ki |-> 0, Kd |-> 0, isStr |-> FALSE, setpoint |-> 0]
PID(Kp, Ki, Kd, isStr, setpoint) ==
    [tag |-> "PID", Kp |-> Kp, Ki |-> Ki, Kd |-> Kd, isStr |-> isStr, setpoint |-> setpoint]

\* Python truth of such a value: None is false; a typing placeholder and an
\* object without __bool__ / __len__ are true.
Truthy(v) == v.tag # "None"

\* PidParams.invert
Invert(p) == [p EXCEPT !.kp = -p.kp, !.ki = -p.ki, !.kd = -p.kd]

\* gain triples a caller configures or sets, and the triples a prior state persisted
ParamChoices == {PidParams(1, 1, 0), PidParams(-1, 1, 0), PidParams(0, 1, 1)}
\* the prior state handed to async_added_to_hass: no state, a state without the
\* pid_params attribute, or a state whose attribute is "kp,ki,kd"
OldStates == {[state |-> "none", params |-> NoneParams],
              [state |-> "no_attr", params |-> NoneParams]}
             \cup {[state |-> "saved", params |-> p] : p \in ParamChoices}

(* ---------------------- SwitchController: pure parts ------------------- *)
\* TurnOnService that ignores the inverted flag
TurnOnService_NotInverted(inv) == SERVICE_TURN_ON

\* _async_turn_on: the service a logical turn-on is sent as
TurnOnService(inv) == IF ~inv THEN SERVICE_TURN_ON ELSE SERVICE_TURN_OFF

\* _async_turn_off: the service a logical turn-off is sent as
TurnOffService(inv) == IF ~inv THEN SERVICE_TURN_OFF ELSE SERVICE_TURN_ON

\* _is_on: hass.states.is_state(target_entity_id, STATE_ON)
IsOn(e) == e = STATE_ON

\* is_working of the SwitchController
IsWorking(e) == IsOn(e)

\* the command a logical decision is sent as
Command(logical, inv) ==
    [logical |-> logical,
     service |-> IF logical = "on" THEN TurnOnService(inv) ELSE TurnOffService(inv)]

\* `if not force and time is None and self._min_cycle_duration`
GateApplies(keepalive, force, mcd) == ~force /\ ~keepalive /\ mcd # 0

\* LongEnough that only compares the state, not the time it was held
LongEnough_StateOnly(e, el, mcd) == e # "none"

\* condition.state(hass, entity_id, current_state, min_cycle_duration) with
\* current_state the entity's own on/off reading; ConditionError (the entity is
\* unknown) counts as False.  The entity has been in the state long enough when
\* now - min_cycle_duration is later than its last change.
LongEnough(e, el, mcd) ==
    LET current_state == IF IsOn(e) THEN STATE_ON ELSE HVAC_MODE_OFF
    IN  IF e = "none" THEN FALSE
        ELSE e = current_state /\ el > mcd

TooCold(cur, target, tol) == cur <= target - tol
TooHot(cur, target, tol) == cur >= target + tol

\* NeedTurnOn without the host's hvac mode
NeedTurnOn_IgnoresHvac(too_hot, too_cold, m, hv) ==
    \/ too_hot /\ m = HVAC_MODE_COOL
    \/ too_cold /\ m = HVAC_MODE_HEAT

NeedTurnOn(too_hot, too_cold, m, hv) ==
    \/ too_hot /\ m = HVAC_MODE_COOL /\ hv \in {HVAC_MODE_COOL, HVAC_MODE_HEAT_COOL}
    \/ too_cold /\ m = HVAC_MODE_HEAT /\ hv \in {HVAC_MODE_HEAT, HVAC_MODE_HEAT_COOL}

\* SwitchDecision without the keep-alive branches
SwitchDecision_NoKeepAlive(is_on, need_turn_on, keepalive) ==
    IF is_on
    THEN IF ~need_turn_on THEN "off" ELSE "none"
    ELSE IF need_turn_on THEN "on" ELSE "none"

\* the if/elif ladder that ends _async_control: the logical command, or "none"
SwitchDecision(is_on, need_turn_on, keepalive) ==
    IF is_on
    THEN IF ~need_turn_on THEN "off"
         ELSE IF keepalive THEN "on" ELSE "none"
    ELSE IF need_turn_on THEN "on"
         ELSE IF keepalive THEN "off" ELSE "none"

\* what one SwitchController._async_control call decides: "gated", or the logical
\* command, or "none"
SwitchControlDecision(keepalive, force, mcd, e, el, cur, target, ctol, htol, m, hv) ==
    IF GateApplies(keepalive, force, mcd) /\ ~LongEnough(e, el, mcd)
    THEN "gated"
    ELSE SwitchDecision(IsOn(e),
                        NeedTurnOn(TooHot(cur, target, htol), TooCold(cur, target, ctol), m, hv),
                        keepalive)

(* ----------------------- AbstractController: pure parts ---------------- *)
\* ControlRuns without the running check
ControlRuns_Always(r) == TRUE

\* async_control: `if not self.__running: return`
ControlRuns(r) == r

\* RunningAfterStart setting the flag whatever the variant's start did
RunningAfterStart_Always(outcome, r) == TRUE

\* async_start: self.__running after the variant's start ended with `outcome`
\* ("ok": returned True, "failed": returned False, "raised": raised)
RunningAfterStart(outcome, r) == IF outcome = "ok" THEN TRUE ELSE r

\* a stop that leaves the flag as it was
RunningAfterStop_Keeps(r) == r

\* async_stop: self.__running once the variant's stop has returned
RunningAfterStop(r) == FALSE

(* ------------------------------ history -------------------------------- *)
NoCmds == <<>>
Op(op, keepalive, force, result, cmds) ==
    [op |-> op, keepalive |-> keepalive, force |-> force, result |-> result, cmds |-> cmds,
     first |-> FALSE, output |-> -1, arg |-> NoneParams]
HostOp(op) == Op(op, FALSE, FALSE, "done", NoCmds)

(* ------------------------------- Init ---------------------------------- *)
\* The state after __init__ and set_thermostat: not running, nothing created;
\* the PID fields hold the typing placeholders __init__ assigns.
Init ==
    /\ variant \in {"switch", "pid"}
    /\ mode \in {HVAC_MODE_HEAT, HVAC_MODE_COOL}
    /\ inverted \in BOOLEAN
    /\ IF variant = "switch"
       THEN /\ \E tp \in TolerancePairs : cold_tolerance = tp[1] /\ hot_tolerance = tp[2]
            /\ min_cycle_duration \in {0, MinCycle}
            /\ initial_pid_params = NoneParams
            /\ entity \in EntityStates
            /\ hvac_mode \in HvacModes
       ELSE /\ cold_tolerance = 0
            /\ hot_tolerance = 0
            /\ min_cycle_duration = 0
            /\ initial_pid_params \in {NoneParams} \cup ParamChoices
            /\ entity = "none"
            /\ hvac_mode = mode
    /\ running = FALSE
    /\ added = FALSE
    /\ current_pid_params = OptionalPidParams
    /\ pid = OptionalPid
    /\ cur_temp \in Temps
    /\ target_temp \in TargetTemps
    /\ elapsed = 0
    /\ svcQueue = <<>>
    /\ applied = -1
    /\ pendingTasks = 0
    /\ ctlAwait = 0
    /\ stopAwait = 0
    /\ last = HostOp("host")
    /\ lastLogical = "none"
    /\ restart = "none"

(* ------------------------- host and environment ------------------------ *)
\* the sensor reports another temperature
SensorUpdate ==
    /\ \E t \in Temps : t # cur_temp /\ cur_temp' = t
    /\ last' = HostOp("host")
    /\ UNCHANGED <<config, running, added, pidState, target_temp, hvac_mode, switchHost,
                   applied, tasks, lastLogical, restart>>

\* the user sets another target temperature
SetTargetTemperature ==
    /\ \E t \in TargetTemps : t # target_temp /\ target_temp' = t
    /\ last' = HostOp("host")
    /\ UNCHANGED <<config, running, added, pidState, cur_temp, hvac_mode, switchHost,
                   applied, tasks, lastLogical, restart>>

\* the user sets another hvac mode (only the SwitchController reads it)
SetHvacMode ==
    /\ variant = "switch"
    /\ \E m \in HvacModes : m # hvac_mode /\ hvac_mode' = m
    /\ last' = HostOp("host")
    /\ UNCHANGED <<config, running, added, pidState, cur_temp, target_temp, switchHost,
                   applied, tasks, lastLogical, restart>>

\* time passes (read only through min_cycle_duration)
Tick ==
    /\ min_cycle_duration # 0
    /\ elapsed < MaxElapsed
    /\ elapsed' = elapsed + 1
    /\ last' = HostOp("host")
    /\ UNCHANGED <<config, running, added, pidState, host, entity, svcQueue,
                   applied, tasks, lastLogical, restart>>

\* _on_target_entity_state_changed: one more control task
OnTargetEntityStateChanged(n) == n + 1

\* The target entity carries out the oldest service call.  When its state
\* changes, last_changed is now and the state-change event runs
\* _on_target_entity_state_changed.
ActuatorApply ==
    /\ svcQueue # <<>>
    /\ LET new == IF Head(svcQueue) = SERVICE_TURN_ON THEN STATE_ON ELSE "off"
       IN  /\ entity' = new
           /\ svcQueue' = Tail(svcQueue)
           /\ IF new # entity
              THEN /\ pendingTasks < MaxTasks
                   /\ elapsed' = 0
                   /\ pendingTasks' = OnTargetEntityStateChanged(pendingTasks)
              ELSE UNCHANGED <<elapsed, pendingTasks>>
    /\ last' = HostOp("host")
    /\ UNCHANGED <<config, running, added, pidState, host, applied, ctlAwait, stopAwait,
                   lastLogical, restart>>

\* async_startup: one control task
AsyncStartup ==
    /\ added
    /\ pendingTasks < MaxTasks
    /\ pendingTasks' = pendingTasks + 1
    /\ last' = HostOp("host")
    /\ UNCHANGED <<config, running, added, pidState, host, switchHost, applied,
                   ctlAwait, stopAwait, lastLogical, restart>>

(* ------------------------ AbstractPidController ------------------------ *)
\* async_added_to_hass: the parameters a prior state restores (the fields are the
\* strings that split(',') returns)
RestoredParams(cur, old) ==
    IF old.state = "saved" THEN [old.params EXCEPT !.isStr = TRUE] ELSE cur

\* async_added_to_hass: `if not self._current_pid_params: ... = self._initial_pid_params`
ResolvedParams(cur, initial) == IF ~Truthy(cur) THEN initial ELSE cur

\* async_added_to_hass of both variants: keeps hass; the PID variant resolves its
\* gain parameters
AsyncAddedToHass ==
    /\ ~added
    /\ added' = TRUE
    /\ IF variant = "pid"
       THEN \E old \in OldStates :
                /\ current_pid_params' =
                      ResolvedParams(RestoredParams(current_pid_params, old), initial_pid_params)
                /\ last' = [Op("added_to_hass", FALSE, FALSE, old.state, NoCmds)
                               EXCEPT !.arg = old.params]
       ELSE /\ last' = HostOp("host")
            /\ UNCHANGED current_pid_params
    /\ UNCHANGED <<config, running, pid, host, switchHost, applied, tasks, lastLogical,
                   restart>>

\* a sign convention that leaves cooling gains as given
Normalized_NoCoolFlip(p, m, inv) == IF inv THEN Invert(p) ELSE p

\* set_pid_params: the sign convention
Normalized(p, m, inv) ==
    LET a == IF m = HVAC_MODE_COOL /\ ~(p.kp < 0) THEN Invert(p) ELSE p
    IN  IF inv THEN Invert(a) ELSE a

\* set_pid_params: None raises ValueError; otherwise the normalized parameters
\* are stored, then `if self._pid:` copies them into the PID object, which raises
\* when self._pid is still the typing placeholder of __init__
SetPidParams ==
    /\ variant = "pid"
    /\ \E p \in ParamChoices \cup {NoneParams} :
        IF ~Truthy(p)
        THEN /\ last' = Op("set_pid_params", FALSE, FALSE, "raised", NoCmds)
             /\ UNCHANGED pidState
        ELSE LET n == Normalized(p, mode, inverted)
             IN  /\ current_pid_params' = n
                 /\ IF ~Truthy(pid)
                    THEN /\ pid' = pid
                         /\ last' = [Op("set_pid_params", FALSE, FALSE, "done", NoCmds)
                                        EXCEPT !.arg = p]
                    ELSE IF pid.tag = "Optional"
                    THEN /\ pid' = pid
                         /\ last' = [Op("set_pid_params", FALSE, FALSE, "raised", NoCmds)
                                        EXCEPT !.arg = p]
                    ELSE /\ pid' = [pid EXCEPT !.Kp = n.kp, !.Ki = n.ki, !.Kd = n.kd,
                                               !.isStr = n.isStr]
                         /\ last' = [Op("set_pid_params", FALSE, FALSE, "done", NoCmds)
                                        EXCEPT !.arg = p]
    /\ UNCHANGED <<config, running, added, host, switchHost, applied, tasks, lastLogical,
                   restart>>

\* AbstractPidController._async_start: how it ends.  `not self._current_pid_params`
\* is false of the placeholder, whose .kp then raises AttributeError.
PidStartOutcome(cur) ==
    IF ~Truthy(cur) THEN "failed"
    ELSE IF cur.tag = "Optional" THEN "raised"
    ELSE "ok"

\* AbstractPidController._async_start: PID(kp, ki, kp, setpoint=target_temp, ...)
PidStartPid(cur, target) == PID(cur.kp, cur.ki, cur.kp, cur.isStr, target)

\* hass.states.get(target_entity_id): None or a State object
CurrentOutput(a) ==
    IF a = -1 THEN [type |-> "NoneType", value |-> -1] ELSE [type |-> "State", value |-> a]

\* `current_output != output`, output a float
OutputDiffers(current_output, output) ==
    current_output.type # "float" \/ current_output.value # output

(* --------------------------- the lifecycle ----------------------------- *)
\* SwitchController._async_start returns True
SwitchStartOutcome == "ok"

\* async_start
AsyncStart ==
    /\ added
    /\ LET outcome == IF variant = "switch" THEN SwitchStartOutcome
                      ELSE PidStartOutcome(current_pid_params)
       IN  /\ running' = RunningAfterStart(outcome, running)
           /\ pid' = IF variant = "pid" /\ outcome = "ok"
                     THEN PidStartPid(current_pid_params, target_temp)
                     ELSE pid
           /\ last' = Op("start", FALSE, FALSE, outcome, NoCmds)
           /\ restart' = IF outcome # "ok" THEN restart
                         ELSE IF restart = "stopped" THEN "restarted"
                         ELSE "none"
    /\ UNCHANGED <<config, added, current_pid_params, host, switchHost, applied, tasks,
                   lastLogical>>

\* a stop that sends nothing
SwitchStopCmds_None(inv) == <<>>

\* SwitchController._async_stop: the commands it sends
SwitchStopCmds(inv) == <<Command("off", inv)>>

\* async_stop up to its first suspension.  The switch variant awaits the
\* turn-off service call; the PID variant drops the PID object, never suspends and
\* clears the running flag in the same step.
AsyncStop ==
    /\ added
    /\ IF variant = "switch"
       THEN LET cmds == SwitchStopCmds(inverted)
            IN  /\ Len(svcQueue) + Len(cmds) <= MaxQueue
                /\ stopAwait < MaxInFlight
                /\ svcQueue' = svcQueue \o [i \in 1..Len(cmds) |-> cmds[i].service]
                /\ stopAwait' = stopAwait + 1
                /\ lastLogical' = IF cmds = <<>> THEN lastLogical ELSE cmds[Len(cmds)].logical
                /\ last' = Op("stop", FALSE, FALSE, "awaiting", cmds)
                /\ UNCHANGED <<running, pid, restart>>
       ELSE /\ pid' = NonePid
            /\ running' = RunningAfterStop(running)
            /\ restart' = "stopped"
            /\ last' = Op("stop", FALSE, FALSE, "done", NoCmds)
            /\ UNCHANGED <<svcQueue, stopAwait, lastLogical>>
    /\ UNCHANGED <<config, added, current_pid_params, host, entity, elapsed, applied,
                   pendingTasks, ctlAwait>>

\* async_stop resumed after the service call: self.__running = False
StopResume ==
    /\ stopAwait > 0
    /\ stopAwait' = stopAwait - 1
    /\ running' = RunningAfterStop(running)
    /\ restart' = "stopped"
    /\ last' = Op("stop_resume", FALSE, FALSE, "done", NoCmds)
    /\ UNCHANGED <<config, added, pidState, host, switchHost, applied, pendingTasks,
                   ctlAwait, lastLogical>>

(* ------------------------------ control -------------------------------- *)
\* SwitchController._async_control: the gate, the decision and, when it commands
\* the target, the service call at which the coroutine is suspended
SwitchControl(keepalive, force) ==
    LET d == SwitchControlDecision(keepalive, force, min_cycle_duration, entity, elapsed,
                                   cur_temp, target_temp, cold_tolerance, hot_tolerance,
                                   mode, hvac_mode)
        first == restart = "restarted"
    IN  /\ IF d \in {"on", "off"}
           THEN /\ Len(svcQueue) < MaxQueue
                /\ ctlAwait < MaxInFlight
                /\ svcQueue' = Append(svcQueue, Command(d, inverted).service)
                /\ ctlAwait' = ctlAwait + 1
                /\ lastLogical' = d
                /\ last' = [Op("control", keepalive, force, "awaiting",
                               <<Command(d, inverted)>>) EXCEPT !.first = first]
           ELSE /\ last' = [Op("control", keepalive, force, d, NoCmds) EXCEPT !.first = first]
                /\ UNCHANGED <<svcQueue, ctlAwait, lastLogical>>
        /\ UNCHANGED <<pid, applied>>

\* AbstractPidController._async_control: the setpoint follows the target, the PID
\* object computes an output within the limits (any of them here), which is
\* applied when it differs from the target entity's state object.  A PID object
\* built from restored (string) gains raises TypeError when called.
PidControl(keepalive, force) ==
    LET first == restart = "restarted"
    IN  /\ IF pid.tag # "PID"
           THEN /\ last' = [Op("control", keepalive, force, "raised", NoCmds)
                               EXCEPT !.first = first]
                /\ UNCHANGED <<pid, applied>>
           ELSE /\ pid' = [pid EXCEPT !.setpoint = target_temp]
                /\ IF pid.isStr
                   THEN /\ last' = [Op("control", keepalive, force, "raised", NoCmds)
                                       EXCEPT !.first = first]
                        /\ UNCHANGED applied
                   ELSE \E output \in Outputs :
                          IF OutputDiffers(CurrentOutput(applied), output)
                          THEN /\ applied' = output
                               /\ last' = [Op("control", keepalive, force, "applied", NoCmds)
                                              EXCEPT !.first = first, !.output = output]
                          ELSE /\ last' = [Op("control", keepalive, force, "same", NoCmds)
                                              EXCEPT !.first = first, !.output = output]
                               /\ UNCHANGED applied
        /\ UNCHANGED <<svcQueue, ctlAwait, lastLogical>>

\* async_control(time, force); keepalive: the time argument is not None
Control(keepalive, force) ==
    /\ added
    /\ IF ~ControlRuns(running)
       THEN /\ last' = Op("control", keepalive, force, "not_running", NoCmds)
            /\ UNCHANGED <<pid, applied, svcQueue, ctlAwait, lastLogical, restart>>
       ELSE /\ restart' = "none"
            /\ IF variant = "switch"
               THEN SwitchControl(keepalive, force)
               ELSE PidControl(keepalive, force)
    /\ UNCHANGED <<config, running, added, current_pid_params, host, entity, elapsed,
                   stopAwait>>

\* the thermostat calls async_control: on a sensor or target change (time None),
\* on its keep-alive timer (time given), with or without force
AsyncControl ==
    /\ \E keepalive \in BOOLEAN, force \in BOOLEAN : Control(keepalive, force)
    /\ UNCHANGED pendingTasks

\* the event loop starts a task made by create_task(self.async_control())
TaskControl ==
    /\ pendingTasks > 0
    /\ pendingTasks' = pendingTasks - 1
    /\ Control(FALSE, FALSE)

\* async_control resumed after its service call: it returns
ControlResume ==
    /\ ctlAwait > 0
    /\ ctlAwait' = ctlAwait - 1
    /\ last' = HostOp("host")
    /\ UNCHANGED <<config, running, added, pidState, host, switchHost, applied,
                   pendingTasks, stopAwait, lastLogical, restart>>

(* --------------------------- specification ----------------------------- *)
Next ==
    \/ AsyncAddedToHass
    \/ AsyncStartup
    \/ AsyncStart
    \/ AsyncStop
    \/ StopResume
    \/ AsyncControl
    \/ TaskControl
    \/ ControlResume
    \/ SetPidParams
    \/ ActuatorApply
    \/ SensorUpdate
    \/ SetTargetTemperature
    \/ SetHvacMode
    \/ Tick

Spec == Init /\ [][Next]_vars

(* ------------------------------- claims -------------------------------- *)
\* need_on as the specification states it, of the values the last call read
ClaimTooCold == cur_temp <= target_temp - cold_tolerance
ClaimTooHot == cur_temp >= target_temp + hot_tolerance
ClaimNeedOn ==
    \/ ClaimTooHot /\ mode = "cool" /\ hvac_mode \in {"cool", "heat_cool"}
    \/ ClaimTooCold /\ mode = "heat" /\ hvac_mode \in {"heat", "heat_cool"}
\* the service a logical command must be sent as
ClaimService(logical) ==
    IF logical = "on" THEN (IF inverted THEN "turn_off" ELSE "turn_on")
    ELSE (IF inverted THEN "turn_on" ELSE "turn_off")
\* the last operation was a control call of a SwitchController that was running
SwitchControlRan == variant = "switch" /\ last.op = "control" /\ running
\* the last operation sent exactly the logical command `logical`
Sent(logical) ==
    /\ last.cmds = <<[logical |-> logical, service |-> ClaimService(logical)]>>
    /\ svcQueue # <<>>
    /\ svcQueue[Len(svcQueue)] = ClaimService(logical)

\* C1: an async_control call made while the controller is not running, whatever
\* its tick kind and force flag, issues no actuator command and changes neither
\* the running flag, the gain parameters nor the feedback state.
C1_NotRunningControlIsNoOp ==
    [][(last'.op = "control" /\ ~running) =>
          /\ last'.cmds = <<>>
          /\ UNCHANGED <<running, current_pid_params, pid, svcQueue, applied, ctlAwait>>]_vars

C1_Witness ==
    /\ last.op = "control"
    /\ ~running
    /\ last.keepalive
    /\ last.force
    /\ variant = "switch"
    /\ entity = "off"
    /\ ClaimNeedOn

\* C2: running is false at construction; it becomes true only by a start whose
\* variant start succeeded, becomes false only by stop, and no control call
\* changes it.
C2_Lifecycle ==
    /\ ~running
    /\ [][/\ (~running /\ running') => (last'.op = "start" /\ last'.result = "ok")
          /\ (running /\ ~running') => last'.op \in {"stop", "stop_resume"}
          /\ last'.op = "control" => running' = running]_vars

C2_Witness ==
    /\ running
    /\ last.op = "start"
    /\ last.result = "ok"
    /\ restart = "restarted"

\* C3: a SwitchController that was stopped and then started, in mode HEAT with the
\* host in HEAT and current_temp < target_temp - cold_tolerance, issues a turn-on
\* on its next control call (the actuator having carried out every earlier
\* command, and no min_cycle_duration gate being in the way), for every value of
\* inverted and every tick kind.
C3_TurnOnAfterRestart ==
    (/\ SwitchControlRan
     /\ last.first
     /\ mode = "heat"
     /\ hvac_mode = "heat"
     /\ cur_temp < target_temp - cold_tolerance
     /\ ~(min_cycle_duration # 0 /\ ~last.force /\ ~last.keepalive)
     /\ Len(svcQueue) = Len(last.cmds))
    => Sent("on")

\* C4: inside the dead band (neither too_cold nor too_hot) a control call of a
\* SwitchController issues no command, whatever the actuator's state and the
\* force flag.  Stated of Normal ticks, where no keep-alive re-assertion of the
\* state the actuator already has can be meant, and of a host whose hvac mode is
\* the controller's mode.
C4_DeadBandNoCommand ==
    (/\ SwitchControlRan
     /\ ~last.keepalive
     /\ hvac_mode = mode
     /\ ~ClaimTooCold
     /\ ~ClaimTooHot)
    => last.cmds = <<>>

\* C5: with min_cycle_duration set, a Normal, unforced control call made while the
\* actuator has held its state for less than min_cycle_duration, or while the
\* elapsed time cannot be determined, issues no command; with force = true the
\* same call issues the command need_on asks for.
C5_MinCycleGate ==
    (/\ SwitchControlRan
     /\ min_cycle_duration # 0
     /\ (elapsed < min_cycle_duration \/ entity = "none"))
    => /\ (~last.keepalive /\ ~last.force) => last.cmds = <<>>
       /\ (last.force /\ entity = "on" /\ ~ClaimNeedOn) => Sent("off")
       /\ (last.force /\ entity # "on" /\ ClaimNeedOn) => Sent("on")

C5_Witness ==
    /\ SwitchControlRan
    /\ min_cycle_duration # 0
    /\ elapsed < min_cycle_duration
    /\ last.force
    /\ ~last.keepalive
    /\ entity = "on"
    /\ ~ClaimNeedOn
    /\ Sent("off")

\* C6: on a KeepAlive control call of a SwitchController the command is re-issued
\* even though the actuator is already in the wanted state: on when it is on and
\* need_on holds, off when it is off and need_on does not hold.
C6_KeepAliveReassert ==
    (SwitchControlRan /\ last.keepalive)
    => /\ (entity = "on" /\ ClaimNeedOn) => Sent("on")
       /\ (entity # "on" /\ ~ClaimNeedOn) => Sent("off")

C6_Witness ==
    /\ SwitchControlRan
    /\ last.keepalive
    /\ entity = "on"
    /\ ClaimNeedOn
    /\ Sent("on")

\* C7: stop() of a SwitchController does not raise, issues exactly one turn-off
\* command whatever the actuator's state, min_cycle_duration and the running
\* flag, and has running = false when it returns.
C7_StopTurnsOff ==
    variant = "switch"
    => /\ last.op = "stop" => (Sent("off") /\ last.result # "raised")
       /\ last.op = "stop_resume" => (~running /\ last.result # "raised")

C7_Witness ==
    /\ variant = "switch"
    /\ last.op = "stop"
    /\ Sent("off")
    /\ ~running
    /\ entity # "on"
    /\ min_cycle_duration # 0
    /\ elapsed < min_cycle_duration

C9_IsWorkingFollowsCommand ==
    (variant = "switch" /\ lastLogical # "none" /\ svcQueue = <<>>)
    => (IsWorking(entity) <=> lastLogical = "on")

\* C10: a PID start with no gain parameters resolved (none configured, none
\* restored, none set) fails without raising: the variant start returns failure,
\* no PID object is built and running stays false.
C10_StartWithoutParamsFails ==
    (/\ variant = "pid"
     /\ last.op = "start"
     /\ initial_pid_params.tag = "None"
     /\ current_pid_params.tag # "PidParams")
    => (last.result = "failed" /\ ~running /\ pid.tag # "PID")

\* the gain triple p with every sign flipped, written out
ClaimNegated(p) == [p EXCEPT !.kp = 0 - p.kp, !.ki = 0 - p.ki, !.kd = 0 - p.kd]

\* C11: at async_added_to_hass, a prior state that carries a "kp,ki,kd"
\* attribute makes that triple the current gain parameters, verbatim and without
\* sign normalization; with no such prior state the current gain parameters
\* become the configured defaults.
C11_ResolveAtStartup ==
    (variant = "pid" /\ last.op = "added_to_hass")
    => IF last.result = "saved"
       THEN /\ current_pid_params.tag = "PidParams"
            /\ current_pid_params.kp = last.arg.kp
            /\ current_pid_params.ki = last.arg.ki
            /\ current_pid_params.kd = last.arg.kd
       ELSE current_pid_params = initial_pid_params

\* C12: set_pid_params of a controller in mode COOL stores, with inverted =
\* false, a triple whose kp is <= 0, with ki and kd negated exactly when kp was;
\* with inverted = true it stores the negation of that triple.
C12_SignNormalization ==
    (/\ variant = "pid"
     /\ mode = HVAC_MODE_COOL
     /\ last.op = "set_pid_params"
     /\ last.arg.tag = "PidParams")
    => LET p == last.arg
           base == IF p.kp < 0 THEN p ELSE ClaimNegated(p)
       IN  /\ base.kp <= 0
           /\ ~inverted => current_pid_params = base
           /\ inverted => current_pid_params = ClaimNegated(base)

C12_Witness ==
    /\ variant = "pid"
    /\ mode = HVAC_MODE_COOL
    /\ inverted
    /\ last.op = "set_pid_params"
    /\ last.arg = PidParams(1, 1, 0)
    /\ current_pid_params = PidParams(1, 1, 0)

\* C13: whenever a PID controller of mode COOL has current gain parameters,
\* wherever they came from (defaults, restored state, set_pid_params), kp is
\* <= 0 with inverted = false and >= 0 with inverted = true.
C13_GainSignInvariant ==
    (/\ variant = "pid"
     /\ mode = HVAC_MODE_COOL
     /\ current_pid_params.tag = "PidParams")
    => /\ ~inverted => current_pid_params.kp <= 0
       /\ inverted => current_pid_params.kp >= 0

\* C14: no two control invocations of one controller execute concurrently: a
\* control task (created by the startup hook or by a state-change notification)
\* of a running controller never begins while an earlier control invocation is
\* still suspended awaiting its actuator command.
C14_ControlsSerialized ==
    [][(pendingTasks' < pendingTasks /\ running) => ctlAwait = 0]_vars

\* C15: the PID object of a PID controller is present if and only if the
\* controller is running: absent from construction to the first successful
\* start, created by start, discarded by stop; a control call that passes the
\* running check finds it.
C15_FeedbackStateIffRunning ==
    variant = "pid" =>
        /\ running <=> pid.tag = "PID"
        /\ (~running /\ restart = "none") => pid.tag = "Optional"
        /\ restart = "stopped" => pid.tag = "None"

C15_Witness ==
    /\ variant = "pid"
    /\ running
    /\ pid.tag = "PID"
    /\ last.op = "control"
    /\ last.result = "applied"

\* the min_cycle_duration gate did not stop the last control call
ClaimUngated ==
    \/ min_cycle_duration = 0
    \/ last.force
    \/ last.keepalive
    \/ (entity # "none" /\ elapsed > min_cycle_duration)

\* C16: an ungated SwitchController control call with a Normal tick issues
\* exactly a turn-off when the actuator is on and need_on is false, exactly a
\* turn-on when the actuator is off and need_on is true, and no command
\* otherwise; never more than one command, and never a turn-on while the host's
\* hvac mode is OFF.
C16_NormalDecision ==
    (SwitchControlRan /\ ~last.keepalive /\ ClaimUngated)
    => /\ (entity = "on" /\ ~ClaimNeedOn) => Sent("off")
       /\ (entity # "on" /\ ClaimNeedOn) => Sent("on")
       /\ (entity = "on" <=> ClaimNeedOn) => last.cmds = <<>>
       /\ Len(last.cmds) <= 1
       /\ hvac_mode = "off" => \A i \in 1..Len(last.cmds) : last.cmds[i].logical # "on"

C16_Witness ==
    /\ SwitchControlRan
    /\ ~last.keepalive
    /\ min_cycle_duration # 0
    /\ ~last.force
    /\ ClaimUngated
    /\ entity = "on"
    /\ ~ClaimNeedOn
    /\ Sent("off")

\* C17: after a successful start of a PID controller, and after a set_pid_params
\* call made while it runs, the PID object's Kp, Ki and Kd equal kp, ki and kd of
\* the current gain parameters; after the start its setpoint equals target_temp.
C17_PidSeeding ==
    (/\ variant = "pid"
     /\ \/ last.op = "start" /\ last.result = "ok"
        \/ last.op = "set_pid_params" /\ last.result = "done" /\ running)
    => /\ pid.tag = "PID"
       /\ pid.Kp = current_pid_params.kp
       /\ pid.Ki = current_pid_params.ki
       /\ pid.Kd = current_pid_params.kd
       /\ last.op = "start" => pid.setpoint = target_temp

\* C18: a control call of a running PID controller passes the output it computed
\* to _apply_output if and only if that output differs from the output the
\* actuator reports when the call is made.
C18_ApplyOnlyOnChange ==
    [][(variant = "pid" /\ last'.op = "control" /\ last'.result \in {"applied", "same"})
          => /\ last'.result = "applied" <=> last'.output # applied
             /\ last'.result = "same" => applied' = applied]_vars

\* C19: once stop() of a SwitchController has completed, and until the next
\* successful start, the last command the controller issued is a turn-off.
C19_StopIsFinal ==
    (variant = "switch" /\ restart = "stopped") => lastLogical = "off"

\* C20: while a SwitchController with min_cycle_duration set runs, a control
\* call with force = false, on a Normal or a KeepAlive tick, issues a command
\* that changes the actuator's on/off state only if the actuator has held its
\* state for at least min_cycle_duration.
C20_ShortCycleProtection ==
    (/\ SwitchControlRan
     /\ min_cycle_duration # 0
     /\ ~last.force
     /\ \E i \in 1..Len(last.cmds) :
           \/ last.cmds[i].service = "turn_off" /\ entity = "on"
           \/ last.cmds[i].service = "turn_on" /\ entity = "off")
    => elapsed >= min_cycle_duration

====
